---- MODULE Spec2Model ----
(***************************************************************************)
(* Content-equivalence engine of duplicate-kriller (src/src/file.rs):      *)
(* FileContent candidates compared through PartialEq::eq, Ord::cmp and     *)
(* PartialOrd::partial_cmp, each candidate owning a Mutex<Hasher>.         *)
(* Metadata and Hasher live in modules that are not part of the given      *)
(* source; they are modelled from their documented contract.               *)
(***************************************************************************)
EXTENDS Naturals, Sequences, FiniteSets

\* Number of chunks of the equal-sized files of the modelled file system.
NumChunks == 2

\* The per-chunk read counter saturates here (I/O call counting).
ReadCap == 2

\* Worker threads calling into the engine concurrently.
Threads == {"t1", "t2"}

NoThread == "none"
NoCand == 0

(***************************************************************************)
(* The file system seen by the engine.  A file is its device, its inode    *)
(* and its content, one value per chunk.  "a2" is byte-identical to "a",   *)
(* "h" is a hard link of "a", "b" has the size of "a" and other content,   *)
(* "c" is shorter, "d" lives on another device, "gone" cannot be stat'ed.  *)
(* The enumerator may hand out a path twice ("a" in the first run below),  *)
(* which makes two candidates of one path.                                 *)
(***************************************************************************)
Zeros(n) == [k \in 1..n |-> 0]

FsFile(p) ==
    CASE p = "a"  -> [exists |-> TRUE, dev |-> 1, ino |-> 1, content |-> Zeros(NumChunks)]
      [] p = "a2" -> [exists |-> TRUE, dev |-> 1, ino |-> 2, content |-> Zeros(NumChunks)]
      [] p = "h"  -> [exists |-> TRUE, dev |-> 1, ino |-> 1, content |-> Zeros(NumChunks)]
      [] p = "b"  -> [exists |-> TRUE, dev |-> 1, ino |-> 3,
                      content |-> [k \in 1..NumChunks |-> IF k = 1 THEN 1 ELSE 0]]
      [] p = "c"  -> [exists |-> TRUE, dev |-> 1, ino |-> 4, content |-> Zeros(NumChunks - 1)]
      [] p = "d"  -> [exists |-> TRUE, dev |-> 2, ino |-> 1, content |-> Zeros(NumChunks)]
      [] OTHER    -> [exists |-> FALSE, dev |-> 0, ino |-> 0, content |-> << >>]

(***************************************************************************)
(* The runs explored: what the external enumerator hands to from_path, in  *)
(* order, and which worker threads call into the engine.  Two runs have    *)
(* two workers contending for few candidates, the third has one worker     *)
(* going through every kind of file.                                       *)
(***************************************************************************)
Scenarios ==
    { [paths |-> <<"a", "a", "gone", "c">>, workers |-> {"t1", "t2"}],
      [paths |-> <<"b", "a">>, workers |-> {"t1", "t2"}],
      [paths |-> <<"a", "a2", "b", "h", "c", "d">>, workers |-> {"t1"}] }

VARIABLES
    paths,        \* the paths the enumerator hands to from_path, in order
    workers,      \* the threads that call into the engine
    enumerated,   \* how many paths of Enumerated were handed to from_path
    lastResult,   \* outcome of the latest from_path call: "none", "Ok", "Err"
    cands,        \* the constructed FileContent values: [path, metadata]
    hashes,       \* per candidate, the Hasher inside the Mutex: digested chunks
    holder,       \* per candidate, the thread owning the MutexGuard, or NoThread
    poisoned,     \* per candidate, whether the Mutex is poisoned
    reads,        \* per candidate, per chunk: number of reads of that chunk
    pc,           \* per thread: "idle", "lock1", "lock2", "hash", "done"
    op,           \* per thread: "eq" or "cmp"
    self,         \* per thread: first argument (candidate index)
    other,        \* per thread: second argument (candidate index)
    idx,          \* per thread: chunk the hasher loop is at
    hres,         \* per thread: what Hasher::compare returned in this call
    pres,         \* per thread: what partial_cmp returned in this call
    ret           \* per thread: what the called operation returned

vars == <<paths, workers, enumerated, lastResult, cands, hashes, holder, poisoned, reads,
          pc, op, self, other, idx, hres, pres, ret>>

candVars == <<paths, workers, enumerated, lastResult, cands>>
threadVars == <<pc, op, self, other, idx, hres, pres, ret>>

Cands == 1..Len(cands)

(***************************************************************************)
(* Metadata (external collaborator): device and size, ordered by device    *)
(* and then by size.                                                       *)
(***************************************************************************)
MetadataFromPath(p) == [dev |-> FsFile(p).dev, size |-> Len(FsFile(p).content)]

NatCmp(x, y) == IF x < y THEN "Less" ELSE IF x > y THEN "Greater" ELSE "Equal"

MetadataCmp(m1, m2) ==
    IF NatCmp(m1.dev, m2.dev) # "Equal"
    THEN NatCmp(m1.dev, m2.dev)
    ELSE NatCmp(m1.size, m2.size)

(***************************************************************************)
(* FileContent::new and FileContent::from_path                             *)
(***************************************************************************)
\* The hash progress of a fresh candidate: Hasher::new().
HasherNew == << >>

\* Faulty variant of NewHashes: the candidate starts from a Hasher that
\* has already consumed a chunk.
NewHashesUsed == <<0>>

\* Line 47: the Hasher a new candidate puts in its Mutex.
NewHashes == HasherNew

\* Faulty variant of new: the metadata handed in are not stored.
newDefaultMetadata(p, m) == [path |-> p, metadata |-> [dev |-> 0, size |-> 0]]

\* FileContent::new: the candidate value built from a path and its metadata.
new(p, m) == [path |-> p, metadata |-> m]

Init ==
    /\ \E s \in Scenarios : paths = s.paths /\ workers = s.workers
    /\ enumerated = 0
    /\ lastResult = "none"
    /\ cands = << >>
    /\ hashes = << >>
    /\ holder = << >>
    /\ poisoned = << >>
    /\ reads = << >>
    /\ pc = [t \in Threads |-> "idle"]
    /\ op = [t \in Threads |-> "none"]
    /\ self = [t \in Threads |-> NoCand]
    /\ other = [t \in Threads |-> NoCand]
    /\ idx = [t \in Threads |-> 0]
    /\ hres = [t \in Threads |-> "NotCalled"]
    /\ pres = [t \in Threads |-> "unset"]
    /\ ret = [t \in Threads |-> "unset"]

\* from_path on the next enumerated path: stat it, fail on a stat error,
\* otherwise build the candidate with an empty Hasher in a fresh Mutex.
from_path ==
    /\ enumerated < Len(paths)
    /\ LET p == paths[enumerated + 1] IN
       /\ enumerated' = enumerated + 1
       /\ UNCHANGED <<paths, workers>>
       /\ IF FsFile(p).exists
          THEN /\ lastResult' = "Ok"
               /\ cands' = Append(cands, new(p, MetadataFromPath(p)))
               /\ hashes' = Append(hashes, NewHashes)
               /\ holder' = Append(holder, NoThread)
               /\ poisoned' = Append(poisoned, FALSE)
               /\ reads' = Append(reads, [k \in 1..Len(FsFile(p).content) |-> 0])
          ELSE /\ lastResult' = "Err"
               /\ UNCHANGED <<cands, hashes, holder, poisoned, reads>>
    /\ UNCHANGED threadVars

(***************************************************************************)
(* PartialOrd::partial_cmp                                                 *)
(***************************************************************************)
\* Line 73: the metadata comparison of the two arguments.
MetaOrd(x, y) == MetadataCmp(cands[x].metadata, cands[y].metadata)

\* Faulty variant of SameInstance: the pointer comparison is left out.
SameInstanceNever(x, y) == FALSE

\* Faulty variant of SameInstance: the paths are compared, not the pointers.
SameInstanceByPath(x, y) == cands[x].path = cands[y].path

\* Line 79: the pointer comparison of the two arguments.
SameInstance(x, y) == x = y

\* Faulty variant of FastPath: the metadata are not compared.
FastPathNoMetadata(x, y) == IF x = y THEN "Equal" ELSE "content"

\* Faulty variant of FastPath: distinct instances are ordered without
\* consulting their content.
FastPathPointerOnly(x, y) ==
    IF MetaOrd(x, y) # "Equal" THEN MetaOrd(x, y)
    ELSE IF x = y THEN "Equal"
    ELSE "Less"

\* Lines 73-81: the ordering partial_cmp returns before it touches a lock,
\* or "content" when the hashes must decide.
FastPath(x, y) ==
    IF MetaOrd(x, y) # "Equal" THEN MetaOrd(x, y)
    ELSE IF SameInstance(x, y) THEN "Equal"
    ELSE "content"

\* Faulty variant of eq: unwrap_or(true).
eqUnwrapOrTrue(p) == IF p = "None" THEN "true" ELSE IF p = "Equal" THEN "true" ELSE "false"

\* Faulty variant of eq: map(|o| o != Less).
eqNotLess(p) == IF p = "None" THEN "false" ELSE IF p # "Less" THEN "true" ELSE "false"

\* Line 57: map(|o| o == Equal).unwrap_or(false)
eq(p) == IF p = "None" THEN "false" ELSE IF p = "Equal" THEN "true" ELSE "false"

\* Faulty variant of cmp: unwrap_or(Equal).
cmpUnwrapOrEqual(p) == IF p = "None" THEN "Equal" ELSE p

\* Line 63: expect(..) panics on None.
cmp(p) == IF p = "None" THEN "panic" ELSE p

\* What the operation o makes of the result p of its partial_cmp call.
Outcome(o, p) == IF o = "eq" THEN eq(p) ELSE cmp(p)

\* Faulty variant of DropGuards: the guard of self outlives the call.
DropGuardsSecondOnly(t) ==
    [c \in Cands |-> IF holder[c] = t /\ c = other[t] THEN NoThread ELSE holder[c]]

\* The guards hashes1 and hashes2 go out of scope when partial_cmp returns
\* (line 87), before eq or cmp look at its result.
DropGuards(t) == [c \in Cands |-> IF holder[c] = t THEN NoThread ELSE holder[c]]

\* Faulty variant of LiveGuards: the result is unwrapped inside the scope
\* of the guards.
LiveGuardsInScope(t) == holder

\* The guards of thread t that are still alive when eq or cmp look at the
\* result of partial_cmp: the ones left once partial_cmp has returned.
LiveGuards(t) == DropGuards(t)

\* Thread t panics while the guards in held are live: unwinding drops them,
\* and a guard dropped during a panic poisons its Mutex.
Unwind(t, held) ==
    /\ poisoned' = [c \in Cands |-> poisoned[c] \/ held[c] = t]
    /\ holder' = [c \in Cands |-> IF holder[c] = t THEN NoThread ELSE holder[c]]

\* partial_cmp returns p to eq or cmp, which returns (or panics) in turn.
Return(t, p) ==
    /\ pres' = [pres EXCEPT ![t] = p]
    /\ ret' = [ret EXCEPT ![t] = Outcome(op'[t], p)]
    /\ pc' = [pc EXCEPT ![t] = "done"]
    /\ idx' = [idx EXCEPT ![t] = 0]
    /\ IF Outcome(op'[t], p) = "panic"
       THEN Unwind(t, LiveGuards(t))
       ELSE /\ holder' = DropGuards(t)
            /\ UNCHANGED poisoned

\* Faulty variant of Compared: the comparison stores, as the size of its
\* first argument, the number of bytes it has hashed of it.
ComparedResized(x, y) == [cands EXCEPT ![x].metadata.size = Len(hashes[x])]

\* Line 69: partial_cmp takes &self and &other, and writes neither path nor
\* metadata: the candidates as a call on x and y leaves them.
Compared(x, y) == cands

\* A thread calls eq or cmp on two constructed candidates; the call runs
\* partial_cmp up to its early return or up to its first lock acquisition.
Call(t, o, x, y) ==
    /\ t \in workers
    /\ pc[t] \in {"idle", "done"}
    /\ op' = [op EXCEPT ![t] = o]
    /\ self' = [self EXCEPT ![t] = x]
    /\ other' = [other EXCEPT ![t] = y]
    /\ hres' = [hres EXCEPT ![t] = "NotCalled"]
    /\ IF FastPath(x, y) = "content"
       THEN /\ pc' = [pc EXCEPT ![t] = "lock1"]
            /\ pres' = [pres EXCEPT ![t] = "unset"]
            /\ ret' = [ret EXCEPT ![t] = "unset"]
            /\ idx' = [idx EXCEPT ![t] = 0]
            /\ UNCHANGED <<holder, poisoned>>
       ELSE Return(t, FastPath(x, y))
    /\ cands' = Compared(x, y)
    /\ UNCHANGED <<paths, workers, enumerated, lastResult, hashes, reads>>

\* lock().unwrap() found the Mutex poisoned: the thread panics.
LockPanics(t) ==
    /\ Unwind(t, holder)
    /\ pc' = [pc EXCEPT ![t] = "done"]
    /\ pres' = [pres EXCEPT ![t] = "unset"]
    /\ ret' = [ret EXCEPT ![t] = "panic"]
    /\ idx' = [idx EXCEPT ![t] = 0]

\* Faulty variant of FirstLock: the first lock taken is the one of other.
FirstLockOther(t) == other[t]

\* The candidate whose Mutex line 83 locks, and the one line 84 locks.
FirstLock(t) == self[t]
SecondLock(t) == other[t]

\* Line 83: self.hashes.lock().unwrap()
Lock1(t) ==
    /\ pc[t] = "lock1"
    /\ holder[FirstLock(t)] = NoThread
    /\ IF poisoned[FirstLock(t)]
       THEN LockPanics(t)
       ELSE /\ holder' = [holder EXCEPT ![FirstLock(t)] = t]
            /\ pc' = [pc EXCEPT ![t] = "lock2"]
            /\ UNCHANGED <<poisoned, idx, pres, ret>>
    /\ UNCHANGED <<candVars, hashes, reads, op, self, other, hres>>

\* Faulty variant of Lock2: the hasher is entered without the lock of other.
Lock2NotTaken(t) ==
    /\ pc[t] = "lock2"
    /\ pc' = [pc EXCEPT ![t] = "hash"]
    /\ idx' = [idx EXCEPT ![t] = 1]
    /\ UNCHANGED <<candVars, hashes, holder, poisoned, reads,
                   op, self, other, hres, pres, ret>>

\* Line 84: other.hashes.lock().unwrap()
Lock2(t) ==
    /\ pc[t] = "lock2"
    /\ holder[SecondLock(t)] = NoThread
    /\ IF poisoned[SecondLock(t)]
       THEN LockPanics(t)
       ELSE /\ holder' = [holder EXCEPT ![SecondLock(t)] = t]
            /\ pc' = [pc EXCEPT ![t] = "hash"]
            /\ idx' = [idx EXCEPT ![t] = 1]
            /\ UNCHANGED <<poisoned, pres, ret>>
    /\ UNCHANGED <<candVars, hashes, reads, op, self, other, hres>>

(***************************************************************************)
(* Hasher::compare (external collaborator), one chunk of the lockstep      *)
(* loop per step.  A Hasher holds the digests of the chunks it has         *)
(* consumed; a chunk that either state lacks is read from that file, and   *)
(* any such read may fail.  Digests are collision-free: a digest is        *)
(* modelled by the chunk it was computed from.                             *)
(***************************************************************************)
\* Faulty variant of HasherOf: every comparison starts from Hasher::new().
HasherPerCall(c) == HasherNew

\* The Hasher the guard of candidate c gives access to.
HasherOf(c) == hashes[c]

\* Whether the state of candidate c still lacks chunk k.
NeedsRead(c, k) == Len(HasherOf(c)) < k

\* The chunk k of the file behind candidate c; reading past its end fails.
InFile(c, k) == k <= Len(FsFile(cands[c].path).content)
ChunkOf(c, k) == FsFile(cands[c].path).content[k]

\* The digest of chunk k held by (or just read into) the state of c.
DigestOf(c, k) == IF NeedsRead(c, k) THEN ChunkOf(c, k) ELSE HasherOf(c)[k]

\* The state of c after the loop handled chunk k, given whether its read worked.
Consumed(c, k, good) ==
    IF NeedsRead(c, k) /\ good THEN Append(HasherOf(c), ChunkOf(c, k)) ELSE HasherOf(c)

Bump(n) == IF n < ReadCap THEN n + 1 ELSE n

\* The read counters of c after the loop handled chunk k.
Counted(c, k, good) ==
    IF NeedsRead(c, k) /\ good /\ k \in DOMAIN reads[c]
    THEN [reads[c] EXCEPT ![k] = Bump(@)]
    ELSE reads[c]

\* Line 86, `.ok()`: an I/O error of the hasher becomes None.
ok(r) == IF r = "Err" THEN "None" ELSE r

\* Hasher::compare returned r: partial_cmp returns ok(r).
HasherReturns(t, r) ==
    /\ hres' = [hres EXCEPT ![t] = r]
    /\ Return(t, ok(r))

\* The size partial_cmp hands to Hasher::compare (line 86).
KnownSize(t) == cands[self[t]].metadata.size

\* One round of the loop of Hasher::compare(hashes1, hashes2, size, paths);
\* the round that ends the loop also ends the partial_cmp call.
HashStep(t) ==
    /\ pc[t] = "hash"
    /\ op' = op
    /\ LET x == self[t]
           y == other[t]
           k == idx[t]
       IN IF k > KnownSize(t)
          THEN /\ HasherReturns(t, "Equal")
               /\ UNCHANGED <<hashes, reads>>
          ELSE \E okx \in IF NeedsRead(x, k) /\ InFile(x, k) THEN BOOLEAN
                          ELSE {~NeedsRead(x, k)} :
               \E oky \in IF okx /\ NeedsRead(y, k) /\ InFile(y, k) THEN BOOLEAN
                          ELSE {okx /\ ~NeedsRead(y, k)} :
                 /\ hashes' = [hashes EXCEPT ![x] = Consumed(x, k, okx),
                                             ![y] = Consumed(y, k, oky)]
                 /\ reads' = [reads EXCEPT ![x] = Counted(x, k, okx),
                                           ![y] = Counted(y, k, oky)]
                 /\ IF ~(okx /\ oky)
                    THEN HasherReturns(t, "Err")
                    ELSE IF DigestOf(x, k) # DigestOf(y, k)
                    THEN HasherReturns(t, NatCmp(DigestOf(x, k), DigestOf(y, k)))
                    ELSE IF k = KnownSize(t)
                    THEN HasherReturns(t, "Equal")
                    ELSE /\ idx' = [idx EXCEPT ![t] = k + 1]
                         /\ UNCHANGED <<pc, hres, pres, ret, holder, poisoned>>
    /\ UNCHANGED <<candVars, self, other>>

Ops == {"eq", "cmp"}

Next ==
    \/ from_path
    \/ \E t \in Threads, o \in Ops : \E x \in Cands, y \in Cands : Call(t, o, x, y)
    \/ \E t \in Threads : Lock1(t)
    \/ \E t \in Threads : Lock2(t)
    \/ \E t \in Threads : HashStep(t)

Spec == Init /\ [][Next]_vars

(***************************************************************************)
(* Vocabulary of the properties                                            *)
(***************************************************************************)
Done(t) == pc[t] = "done"
InCall(t) == pc[t] # "idle"
Holds(t, c) == holder[c] = t
FileOf(c) == FsFile(cands[c].path)
SameContent(x, y) == FileOf(x).content = FileOf(y).content
TotalReads(c) == Cardinality({k \in DOMAIN reads[c] : reads[c][k] > 0})

(***************************************************************************)
(* Properties                                                              *)
(***************************************************************************)

\* C1 -- Deadlock freedom: there is never a set of threads each of which
\* holds the hash lock of its first argument and waits, at line 84, for a
\* lock held by another thread of the set.
C1_DeadlockFree ==
    \A S \in SUBSET Threads :
        S # {} =>
            \E t \in S : ~(/\ pc[t] = "lock2"
                           /\ Holds(t, FirstLock(t))
                           /\ holder[SecondLock(t)] \in S \ {t})

\* C2 -- Fail-closed on read failure: a call in which Hasher::compare
\* reported an I/O error has partial_cmp yield None, and eq return false.
C2_FailClosed ==
    \A t \in Threads :
        Done(t) /\ hres[t] = "Err" =>
            /\ pres[t] = "None"
            /\ op[t] = "eq" => ret[t] = "false"

C2_Witness ==
    \E t \in Threads :
        Done(t) /\ hres[t] = "Err" /\ op[t] = "eq" /\ ret[t] = "false"

\* C3 -- eq never raises: a call of eq never ends in a panic, neither on a
\* read failure nor while locking, also after cmp panicked on the same
\* candidates in another thread; it returns a boolean.
C3_EqNeverPanics ==
    \A t \in Threads :
        InCall(t) /\ op[t] = "eq" =>
            /\ ret[t] # "panic"
            /\ Done(t) => ret[t] \in {"true", "false"}

\* eq holds both locks of the two candidates on which cmp, in the other
\* thread, has panicked before.
C3_Witness ==
    \E t \in Threads, u \in Threads :
        /\ op[t] = "eq" /\ pc[t] = "hash"
        /\ op[u] = "cmp" /\ Done(u) /\ ret[u] = "panic"
        /\ {self[t], other[t]} = {self[u], other[u]}

\* C4 -- cmp returns the ordering partial_cmp yields and panics exactly
\* when partial_cmp yields None, that is when the hasher failed to read.
C4_TotalOrder ==
    \A t \in Threads :
        Done(t) /\ op[t] = "cmp" =>
            /\ ret[t] = "panic" <=> pres[t] = "None"
            /\ pres[t] = "None" <=> hres[t] = "Err"
            /\ pres[t] # "None" => ret[t] = pres[t] /\ ret[t] \in {"Less", "Equal", "Greater"}

C4_Witness ==
    \E t \in Threads, u \in Threads :
        /\ Done(t) /\ op[t] = "cmp" /\ ret[t] = "panic" /\ hres[t] = "Err"
        /\ Done(u) /\ op[u] = "cmp" /\ ret[u] = "Equal" /\ hres[u] = "Equal"

\* C5 -- eq is true exactly when partial_cmp yields Equal, hence only when
\* the metadata compare equal and either both arguments are one instance
\* or the hasher returned Equal.
C5_EqIffEqual ==
    \A t \in Threads :
        Done(t) /\ op[t] = "eq" =>
            /\ ret[t] = "true" <=> pres[t] = "Equal"
            /\ ret[t] = "true" =>
                  /\ MetadataCmp(cands[self[t]].metadata, cands[other[t]].metadata) = "Equal"
                  /\ self[t] = other[t] \/ hres[t] = "Equal"

C5_Witness ==
    \E t \in Threads, u \in Threads :
        /\ Done(t) /\ op[t] = "eq" /\ ret[t] = "true"
        /\ self[t] # other[t] /\ hres[t] = "Equal"
        /\ Done(u) /\ op[u] = "eq" /\ ret[u] = "false" /\ pres[u] = "Less"

\* C6 -- Reflexivity: a call on one and the same candidate yields Equal (eq
\* returns true) at once: it takes no lock and never enters the hasher,
\* whatever the candidate's hash progress and whoever holds its lock.
C6_Reflexive ==
    \A t \in Threads :
        InCall(t) /\ self[t] = other[t] =>
            /\ Done(t)
            /\ pres[t] = "Equal"
            /\ op[t] = "eq" => ret[t] = "true"
            /\ hres[t] = "NotCalled"
            /\ \A c \in Cands : ~Holds(t, c)

\* eq(A, A) has returned true while the other thread holds A's lock inside
\* a comparison that has already consumed part of A.
C6_Witness ==
    \E t \in Threads, u \in Threads :
        /\ Done(t) /\ op[t] = "eq" /\ self[t] = other[t] /\ ret[t] = "true"
        /\ u # t /\ pc[u] = "hash" /\ Holds(u, self[t])
        /\ Len(hashes[self[t]]) > 0

\* C7 -- Size/device discrimination: for candidates whose metadata differ
\* in size or in device, partial_cmp yields the metadata ordering, which is
\* not Equal, and eq is false, whatever the content and the hash progress.
C7_MetadataDiscriminates ==
    \A t \in Threads :
        LET m1 == cands[self[t]].metadata
            m2 == cands[other[t]].metadata
        IN InCall(t) /\ (m1.size # m2.size \/ m1.dev # m2.dev) =>
            /\ Done(t)
            /\ pres[t] \in {"Less", "Greater"}
            /\ pres[t] = MetadataCmp(m1, m2)
            /\ op[t] = "eq" => ret[t] = "false"

\* eq is false for two files of identical content on different devices,
\* the first of which has been hashed to its end.
C7_Witness ==
    \E t \in Threads :
        /\ Done(t) /\ op[t] = "eq" /\ ret[t] = "false"
        /\ cands[self[t]].metadata.dev # cands[other[t]].metadata.dev
        /\ SameContent(self[t], other[t])
        /\ Len(hashes[self[t]]) = cands[self[t]].metadata.size

\* The step in which thread t makes a call on candidates x and y.
CallStep(t) ==
    /\ pc[t] \in {"idle", "done"}
    /\ <<pc[t], op[t], self[t], other[t], ret[t]>> #
       <<pc'[t], op'[t], self'[t], other'[t], ret'[t]>>

C8_NoLockNoHasher ==
    \A t \in Threads :
        InCall(t) /\ MetadataCmp(cands[self[t]].metadata, cands[other[t]].metadata) # "Equal" =>
            /\ Done(t)
            /\ hres[t] = "NotCalled"
            /\ \A c \in Cands : ~Holds(t, c)

C8_NoEffect ==
    \A t \in Threads :
        (/\ CallStep(t)
         /\ MetadataCmp(cands[self'[t]].metadata, cands[other'[t]].metadata) # "Equal")
        => /\ pc'[t] = "done"
           /\ UNCHANGED <<hashes, reads, holder, poisoned>>

\* C8 -- The fast path has no effect and never blocks: a call on candidates
\* whose metadata compare unequal is over in the calling step, which takes
\* no lock, does not enter the hasher, reads nothing and leaves every hash
\* progress as it was, whoever holds the locks of the two candidates.
C8_FastPathFrame == [] C8_NoLockNoHasher /\ [][C8_NoEffect]_vars

\* The call has returned while the other thread is inside the hasher with
\* the lock of the first argument, part of which is already consumed.
C8_Witness ==
    \E t \in Threads, u \in Threads :
        /\ Done(t)
        /\ MetadataCmp(cands[self[t]].metadata, cands[other[t]].metadata) # "Equal"
        /\ u # t /\ pc[u] = "hash" /\ Holds(u, self[t])
        /\ Len(hashes[self[t]]) > 0

\* C9 -- Content equality across distinct instances: for two distinct
\* candidates with equal metadata and byte-identical files, a comparison
\* without read failure yields Equal (eq returns true), in either argument
\* order and whatever hash progress the two have accumulated.
C9_SameContentEqual ==
    \A t \in Threads :
        (/\ Done(t)
         /\ self[t] # other[t]
         /\ MetadataCmp(cands[self[t]].metadata, cands[other[t]].metadata) = "Equal"
         /\ SameContent(self[t], other[t])
         /\ hres[t] # "Err")
        => /\ pres[t] = "Equal"
           /\ op[t] = "eq" => ret[t] = "true"

\* eq is true for a hard link and its file, given in that order, after
\* both a third identical file and a file of other content have been read.
C9_Witness ==
    \E t \in Threads :
        /\ Done(t) /\ op[t] = "eq" /\ ret[t] = "true"
        /\ cands[self[t]].path = "h" /\ cands[other[t]].path = "a"
        /\ \E c \in Cands : cands[c].path = "a2" /\ TotalReads(c) > 0
        /\ \E c \in Cands : cands[c].path = "b" /\ TotalReads(c) > 0

\* C10 -- Incrementality: no chunk of a candidate's file is read twice, the
\* chunks read are exactly the ones its hash progress has consumed, and so
\* the bytes read from it over all comparisons never exceed its size.
C10_Incremental ==
    \A c \in Cands :
        /\ \A k \in DOMAIN reads[c] : reads[c][k] <= 1
        /\ \A k \in DOMAIN reads[c] : reads[c][k] = 1 <=> k <= Len(hashes[c])
        /\ TotalReads(c) <= cands[c].metadata.size

\* One candidate has been read to its end, each chunk once, and three
\* other candidates of equal metadata have been read as well.
C10_Witness ==
    \E c \in Cands :
        /\ \A k \in DOMAIN reads[c] : reads[c][k] = 1
        /\ Cardinality({d \in Cands \ {c} :
               /\ cands[d].metadata = cands[c].metadata
               /\ TotalReads(d) > 0}) >= 3

IsPrefix(q, r) == Len(q) <= Len(r) /\ \A k \in 1..Len(q) : q[k] = r[k]

C11_Bounded ==
    \A c \in Cands : Len(hashes[c]) <= cands[c].metadata.size

C11_Monotone ==
    \A c \in DOMAIN hashes' :
        IF c \in Cands
        THEN IsPrefix(hashes[c], hashes'[c])
        ELSE Len(hashes'[c]) = 0

\* C11 -- Monotone hash progress: a new candidate has consumed nothing, and
\* in every step of every interleaving the consumed prefix of a candidate
\* only grows, never beyond the size in the candidate's metadata.
C11_MonotoneProgress == [] C11_Bounded /\ [][C11_Monotone]_vars

\* A candidate is consumed to its end and the latest comparison it took
\* part in ended in a read failure.
C11_Witness ==
    \E c \in Cands, t \in Threads :
        /\ cands[c].metadata.size > 0
        /\ Len(hashes[c]) = cands[c].metadata.size
        /\ Done(t) /\ hres[t] = "Err" /\ c \in {self[t], other[t]}

\* The step is one of thread t.
StepOf(t) == <<pc[t], idx[t]>> # <<pc'[t], idx'[t]>>

C12_Exclusive ==
    /\ \A t \in Threads :
           pc[t] = "hash" => Holds(t, self[t]) /\ Holds(t, other[t])
    /\ \A t \in Threads, u \in Threads :
           t # u /\ pc[t] = "hash" /\ pc[u] = "hash" =>
               {self[t], other[t]} \cap {self[u], other[u]} = {}

C12_OnlyUnderLock ==
    \A c \in Cands :
        hashes'[c] # hashes[c] \/ reads'[c] # reads[c] =>
            \E t \in Threads :
                /\ pc[t] = "hash" /\ StepOf(t)
                /\ Holds(t, c)
                /\ c \in {self[t], other[t]}

\* C12 -- Mutual exclusion on hash state: a thread is inside the hasher
\* only while it holds the locks of both its arguments, two threads are
\* never inside it with a common candidate, and a candidate's hash state
\* changes only in a step of a thread that holds its lock and has it as an
\* argument.
C12_MutualExclusion == [] C12_Exclusive /\ [][C12_OnlyUnderLock]_vars

\* One thread is inside the hasher, part of its first argument consumed,
\* while the other thread waits for the lock of one of the two candidates.
C12_Witness ==
    \E t \in Threads, u \in Threads :
        /\ t # u /\ pc[t] = "hash" /\ Len(hashes[self[t]]) > 0
        /\ pc[u] = "lock1" /\ FirstLock(u) \in {self[t], other[t]}

C13_Unchanged ==
    /\ Len(cands') >= Len(cands)
    /\ \A c \in Cands : cands'[c] = cands[c]

\* C13 -- The metadata snapshot is immutable: no step, whatever the call
\* and its outcome, changes the path or the metadata of a constructed
\* candidate.
C13_MetadataImmutable == [][C13_Unchanged]_vars

\* A comparison has ended in a read failure after it consumed part of its
\* first argument, whose metadata are still the ones of its file.
C13_Witness ==
    \E t \in Threads :
        /\ Done(t) /\ hres[t] = "Err" /\ Len(hashes[self[t]]) > 0
        /\ cands[self[t]].metadata.size = Len(FileOf(self[t]).content)
        /\ cands[self[t]].metadata.dev = FileOf(self[t]).dev

C14_Step ==
    enumerated' # enumerated =>
        LET p == paths[enumerated + 1]
            n == Len(cands)
        IN /\ UNCHANGED threadVars
           /\ IF ~FsFile(p).exists
              THEN /\ lastResult' = "Err"
                   /\ UNCHANGED <<cands, hashes, holder, poisoned, reads>>
              ELSE /\ lastResult' = "Ok"
                   /\ Len(cands') = n + 1
                   /\ cands'[n + 1].path = p
                   /\ cands'[n + 1].metadata.dev = FsFile(p).dev
                   /\ cands'[n + 1].metadata.size = Len(FsFile(p).content)
                   /\ Len(hashes'[n + 1]) = 0
                   /\ \A k \in DOMAIN reads'[n + 1] : reads'[n + 1][k] = 0
                   /\ holder'[n + 1] = NoThread
                   /\ \A c \in 1..n : /\ cands'[c] = cands[c]
                                      /\ hashes'[c] = hashes[c]
                                      /\ reads'[c] = reads[c]
                                      /\ holder'[c] = holder[c]

\* C14 -- Construction fails closed: from_path on a path that cannot be
\* stat'ed returns an error and makes no candidate; otherwise it makes one
\* candidate with that path, the stat'ed metadata and an empty hash state.
\* It reads nothing, and touches no other candidate and no call.
C14_Construction == [][C14_Step]_vars

\* from_path has just failed, after two candidates were made and compared.
C14_Witness ==
    /\ lastResult = "Err"
    /\ Len(cands) = 2
    /\ enumerated = 3
    /\ \E c \in Cands : Len(hashes[c]) > 0

\* C15 -- Lock acquisition order: a call in the content step takes the lock
\* of its first argument before it tries the lock of the second, never
\* holds the second without the first, and is inside the hasher only with
\* both.
C15_LockOrder ==
    \A t \in Threads :
        InCall(t) =>
            /\ pc[t] = "lock1" => ~Holds(t, self[t]) /\ ~Holds(t, other[t])
            /\ pc[t] = "lock2" => Holds(t, self[t]) /\ ~Holds(t, other[t])
            /\ pc[t] = "hash" => Holds(t, self[t]) /\ Holds(t, other[t])
            /\ Holds(t, other[t]) => Holds(t, self[t])

\* A thread holds the lock of its first argument and is about to take the
\* second, while the other thread waits for the lock the first one holds.
C15_Witness ==
    \E t \in Threads, u \in Threads :
        /\ t # u /\ pc[t] = "lock2" /\ Holds(t, self[t])
        /\ holder[other[t]] = NoThread
        /\ pc[u] = "lock1" /\ FirstLock(u) = self[t]

\* C16 -- The identity shortcut fires only for one and the same instance:
\* a call on two distinct candidates with equal metadata, even of one path,
\* goes through the locks and returns what the hasher decided, None on a
\* read failure.
C16_ShortcutOnlySameInstance ==
    \A t \in Threads :
        (/\ InCall(t)
         /\ self[t] # other[t]
         /\ MetadataCmp(cands[self[t]].metadata, cands[other[t]].metadata) = "Equal")
        => /\ pc[t] \in {"lock1", "lock2", "hash", "done"}
           /\ Done(t) =>
                 /\ hres[t] \in {"Less", "Equal", "Greater", "Err"}
                 /\ pres[t] = IF hres[t] = "Err" THEN "None" ELSE hres[t]

\* Two candidates of one path were compared and a read failed.
C16_Witness ==
    \E t \in Threads :
        /\ Done(t) /\ self[t] # other[t]
        /\ cands[self[t]].path = cands[other[t]].path
        /\ hres[t] = "Err" /\ pres[t] = "None"

\* C17 -- No self-deadlock: a call that is at a lock or inside the hasher
\* has two distinct arguments and does not hold the lock it is about to
\* take; a call on one and the same candidate is over at once.
C17_NoSelfDeadlock ==
    \A t \in Threads :
        /\ pc[t] \in {"lock1", "lock2", "hash"} => self[t] # other[t]
        /\ pc[t] = "lock1" => ~Holds(t, FirstLock(t))
        /\ pc[t] = "lock2" => ~Holds(t, SecondLock(t))
        /\ InCall(t) /\ self[t] = other[t] => Done(t)

\* A thread is about to take its second lock, which is free, while the
\* call of the other thread on the first candidate alone has returned.
C17_Witness ==
    \E t \in Threads, u \in Threads :
        /\ pc[t] = "lock2" /\ Holds(t, FirstLock(t))
        /\ holder[SecondLock(t)] = NoThread
        /\ Done(u) /\ self[u] = other[u] /\ self[u] = self[t]

\* C18 -- Locks are released on every exit: a thread that is not inside a
\* call, whatever its last call returned and also after a panic of cmp,
\* holds no lock, and no Mutex is ever poisoned.
C18_LocksReleased ==
    /\ \A t \in Threads :
           pc[t] \in {"idle", "done"} => \A c \in Cands : ~Holds(t, c)
    /\ \A c \in Cands : ~poisoned[c]

\* cmp has panicked in one thread, and the other thread, in a cmp call on
\* the same two candidates in the other order, holds both locks.
C18_Witness ==
    \E t \in Threads, u \in Threads :
        /\ Done(t) /\ op[t] = "cmp" /\ ret[t] = "panic"
        /\ op[u] = "cmp" /\ pc[u] = "hash"
        /\ self[u] = other[t] /\ other[u] = self[t]
        /\ Holds(u, self[u]) /\ Holds(u, other[u])

Reverse(o) ==
    CASE o = "Less" -> "Greater"
      [] o = "Greater" -> "Less"
      [] OTHER -> o

\* C19 -- Antisymmetry: of two finished calls on the same two candidates in
\* opposite orders, neither with a read failure, the one yields the reverse
\* of the other, and two such eq calls return the same boolean.
C19_Antisymmetric ==
    \A t \in Threads, u \in Threads :
        (/\ Done(t) /\ Done(u)
         /\ self[u] = other[t] /\ other[u] = self[t]
         /\ hres[t] # "Err" /\ hres[u] # "Err")
        => /\ pres[t] \in {"Less", "Equal", "Greater"}
           /\ pres[u] = Reverse(pres[t])
           /\ op[t] = "eq" /\ op[u] = "eq" => ret[t] = ret[u]

\* Two distinct candidates were compared through the hasher in both orders,
\* with Less one way and Greater the other.
C19_Witness ==
    \E t \in Threads, u \in Threads :
        /\ Done(t) /\ Done(u) /\ self[t] # other[t]
        /\ self[u] = other[t] /\ other[u] = self[t]
        /\ hres[t] = "Less" /\ hres[u] = "Greater"
        /\ op[t] = "eq" /\ op[u] = "eq" /\ ret[t] = "false" /\ ret[u] = "false"

====
